---------------------------- MODULE Spec2Model ----------------------------
(***************************************************************************)
(* Model of the statistical-analysis engine of src/src/analysis.rs         *)
(* (StatisticalAnalysis: descriptive, one_way_anova, two_way_anova,        *)
(* f_p_value, t_test, lsd_test).                                           *)
(*                                                                         *)
(* f64 values are modelled by exact values of the form                     *)
(*        (an/ad + (bn/bd) * sqrt(s)) * 2^(32*e)                           *)
(* with s a square-free positive integer, together with NaN, +inf, -inf.   *)
(* The IEEE-754 special cases 0/0, x/0, inf-inf, sqrt of a negative and    *)
(* comparisons with NaN are kept.  The exponent e only serves the value    *)
(* 2^64 that a wrapped usize subtraction yields after conversion to f64.   *)
(*                                                                         *)
(* Arithmetic comes in two modes.  With rounding = FALSE every operation   *)
(* is exact: this is f64 arithmetic on data for which no operation rounds. *)
(* With rounding = TRUE every operation rounds its exact result to the     *)
(* nearest value with MantissaBits significant bits, ties to even, as f64  *)
(* does with 53 bits.  In both modes a result of magnitude 2^1024 or more  *)
(* is infinite, as in f64.                                                 *)
(***************************************************************************)
EXTENDS Integers, Sequences, FiniteSets, TLC

VARIABLES
    overflow_checks,  \* build profile: are integer overflow checks compiled in
    pc,               \* "ready" | "returned" | "panicked"
    input,            \* the arguments of the call
    site,             \* source line of the return statement taken (0: none yet)
    result,           \* the value returned by the call
    rounding,         \* do the f64 operations round (to MantissaBits bits)
    magnitude         \* the observations are the sample's integers times 2^(32*magnitude)

vars == <<overflow_checks, pc, input, site, result, rounding, magnitude>>

(***************************************************************************)
(* Bounds of the model.                                                    *)
(***************************************************************************)
MaxGroups == 3
MaxLen == 2
MaxCells == 3
\* significant bits of a rounded f64 value (53 in the program)
MantissaBits == 4
\* observations of the samples given to descriptive, one_way_anova and t_test
Values == {0, 1, 3}
\* observations of the samples given to lsd_test and two_way_anova
FewValues == {0, 1}
\* factor level counts given to two_way_anova
Levels == {1, 2}
\* longest sample of a call with rounding arithmetic
MaxLenRounded == 3
\* observations given to one_way_anova and t_test with rounding arithmetic:
\* values whose sums need more than MantissaBits bits
RoundedValues == {1, 5, 7}
\* observations given to two_way_anova with rounding arithmetic
FewRoundedValues == {5, 7}

(***************************************************************************)
(* Integer helpers.                                                        *)
(***************************************************************************)
Abs(i) == IF i < 0 THEN -i ELSE i

Sign(i) == IF i > 0 THEN 1 ELSE IF i < 0 THEN -1 ELSE 0

RECURSIVE Gcd(_, _)
Gcd(a, b) == IF b = 0 THEN a ELSE Gcd(b, a % b)

RECURSIVE SquarePartFrom(_, _)
\* the largest g >= i with g*g dividing n (n > 0), searched downwards from i
SquarePartFrom(n, i) ==
    IF i <= 1 THEN 1
    ELSE IF n % (i * i) = 0 THEN i
    ELSE SquarePartFrom(n, i - 1)

RECURSIVE ISqrtFrom(_, _)
\* the largest r >= i with r*r <= n, given i*i <= n
ISqrtFrom(n, i) == IF (i + 1) * (i + 1) > n THEN i ELSE ISqrtFrom(n, i + 1)

ISqrt(n) == ISqrtFrom(n, 0)

SquarePart(n) == SquarePartFrom(n, ISqrt(n))

(***************************************************************************)
(* Exact rationals <<n, d>> with d > 0, in lowest terms.                   *)
(***************************************************************************)
RNorm(n, d) ==
    LET g == Gcd(Abs(n), Abs(d))
        sg == IF d < 0 THEN -1 ELSE 1
    IN  IF n = 0 THEN <<0, 1>>
        ELSE IF d = 1 THEN <<n, 1>>
        ELSE <<sg * (n \div g), sg * (d \div g)>>

RAdd(p, q) ==
    IF p[2] = q[2] THEN RNorm(p[1] + q[1], p[2])
    ELSE RNorm(p[1] * q[2] + q[1] * p[2], p[2] * q[2])

RNeg(p) == <<-p[1], p[2]>>

RMul(p, q) == RNorm(p[1] * q[1], p[2] * q[2])

\* q is not zero
RInv(q) == RNorm(q[2], q[1])

RSign(p) == Sign(p[1])

(***************************************************************************)
(* f64 values.                                                             *)
(***************************************************************************)
Fin(a, b, s, e) ==
    LET za == a[1] = 0
        zb == b[1] = 0
    IN  [k |-> "fin", an |-> a[1], ad |-> a[2],
         bn |-> b[1], bd |-> b[2],
         s |-> IF zb THEN 1 ELSE s,
         e |-> IF za /\ zb THEN 0 ELSE e]

NaN == [k |-> "nan", an |-> 0, ad |-> 1, bn |-> 0, bd |-> 1, s |-> 1, e |-> 0]

Inf(sg) == [k |-> "inf", an |-> sg, ad |-> 1, bn |-> 0, bd |-> 1, s |-> 1, e |-> 0]

Rat(n, d) == Fin(RNorm(n, d), <<0, 1>>, 1, 0)

FromInt(n) == Rat(n, 1)

Zero == FromInt(0)

One == FromInt(1)

\* 2^64 as an f64
Pow64 == Fin(<<1, 1>>, <<0, 1>>, 1, 2)

IsNaN(x) == x.k = "nan"

IsFinite(x) == x.k = "fin"

A(x) == <<x.an, x.ad>>

B(x) == <<x.bn, x.bd>>

\* the sign of a finite value a + b*sqrt(s): -1, 0 or 1
FinSign(x) ==
    LET sa == Sign(x.an)
        sb == Sign(x.bn)
    IN  IF sb = 0 THEN sa
        ELSE IF sa = 0 \/ sa = sb THEN sb
        ELSE \* opposite signs: compare a^2 with b^2 * s
             LET a2 == RMul(A(x), A(x))
                 b2 == RMul(RMul(B(x), B(x)), <<x.s, 1>>)
             IN  IF RSign(RAdd(a2, RNeg(b2))) > 0 THEN sa ELSE sb

\* the sign of any value that is not NaN
FSign(x) == IF x.k = "inf" THEN x.an ELSE FinSign(x)

IsZero(x) == x.k = "fin" /\ x.an = 0 /\ x.bn = 0

FNeg(x) ==
    IF x.k = "fin" THEN [x EXCEPT !.an = -x.an, !.bn = -x.bn]
    ELSE IF x.k = "inf" THEN Inf(-x.an)
    ELSE NaN

(***************************************************************************)
(* Rounding to MantissaBits significant bits, ties to even.                *)
(***************************************************************************)
RECURSIVE ScaleTo(_, _, _, _, _)
\* <<n1, d1, k>> with n/d = (n1/d1) * base^k and lo <= n1/d1 < lo * base,
\* for n > 0 and d > 0
ScaleTo(n, d, k, lo, base) ==
    IF n >= lo * base * d THEN ScaleTo(n, base * d, k + 1, lo, base)
    ELSE IF n < lo * d THEN ScaleTo(base * n, d, k - 1, lo, base)
    ELSE <<n, d, k>>

\* the integer nearest to n/d, ties to even, for n >= 0 and d > 0
NearestInt(n, d) ==
    IF 2 * (n % d) > d \/ (2 * (n % d) = d /\ (n \div d) % 2 = 1)
    THEN (n \div d) + 1
    ELSE n \div d

\* the rational sg * m * 2^k
Scaled(sg, m, k) == IF k >= 0 THEN <<sg * m * (2 ^ k), 1>> ELSE RNorm(sg * m, 2 ^ (-k))

RoundScaled(sg, sc) == Scaled(sg, NearestInt(sc[1], sc[2]), sc[3])

\* the rational q rounded to MantissaBits significant bits
RoundRat(q) ==
    IF q[1] = 0 THEN q
    ELSE RoundScaled(Sign(q[1]),
                     ScaleTo(Abs(q[1]), q[2], 0, 2 ^ (MantissaBits - 1), 2))

\* a value outside the representation: evaluating it stops the check
Unrepresentable == CHOOSE v \in {} : TRUE

\* the finite f64 values are below 2^1024 = 2^(32 * MaxExponent)
MaxExponent == 32

\* the magnitude of the finite value x is 2^1024 or more
Overflows(x) ==
    /\ x.e >= MaxExponent
    /\ IF x.bn # 0 THEN Unrepresentable
       ELSE x.e > MaxExponent \/ Abs(x.an) >= x.ad

\* the result of an f64 operation whose exact value is x
Round(x) ==
    IF x.k = "fin" /\ Overflows(x) THEN Inf(FinSign(x))
    ELSE IF rounding /\ x.k = "fin" /\ x.bn = 0
    THEN Fin(RoundRat(A(x)), <<0, 1>>, 1, x.e)
    ELSE x

\* m0 = floor(sqrt(n/d)) rounded up when sqrt(n/d) is nearer to m0 + 1
\* (at a tie, when m0 is odd)
NearestRoot(n, d, m0) ==
    IF 4 * n > (4 * m0 * m0 + 4 * m0 + 1) * d
       \/ (4 * n = (4 * m0 * m0 + 4 * m0 + 1) * d /\ m0 % 2 = 1)
    THEN m0 + 1
    ELSE m0

RootScaled(sc) == Scaled(1, NearestRoot(sc[1], sc[2], ISqrt(sc[1] \div sc[2])), sc[3])

\* the square root of the rational q > 0 rounded to MantissaBits bits
RoundSqrtRat(q) == RootScaled(ScaleTo(q[1], q[2], 0, 4 ^ (MantissaBits - 1), 4))

\* a sum of two finite values whose magnitudes differ by 2^64 rounds to the larger
FinAdd(x, y) ==
    IF IsZero(x) THEN y
    ELSE IF IsZero(y) THEN x
    ELSE IF x.e >= y.e + 2 THEN x
    ELSE IF y.e >= x.e + 2 THEN y
    ELSE IF x.e # y.e \/ (x.bn # 0 /\ y.bn # 0 /\ x.s # y.s) THEN Unrepresentable
    ELSE IF x.bn = 0 /\ y.bn = 0 THEN Fin(RAdd(A(x), A(y)), <<0, 1>>, 1, x.e)
    ELSE Fin(RAdd(A(x), A(y)), RAdd(B(x), B(y)), IF x.bn = 0 THEN y.s ELSE x.s, x.e)

FAdd(x, y) ==
    IF x.k = "nan" \/ y.k = "nan" THEN NaN
    ELSE IF x.k = "inf" THEN (IF y.k = "inf" /\ y.an # x.an THEN NaN ELSE x)
    ELSE IF y.k = "inf" THEN y
    ELSE Round(FinAdd(x, y))

FSub(x, y) == FAdd(x, FNeg(y))

\* sqrt(s1) * sqrt(s2) = g * sqrt(s1*s2 / g^2) with g = gcd(s1, s2)
FinMul(x, y) ==
    LET g == Gcd(x.s, y.s)
        s == (x.s \div g) * (y.s \div g)
        same == x.s = y.s
        a == IF same
             THEN RAdd(RMul(A(x), A(y)), RMul(RMul(B(x), B(y)), <<x.s, 1>>))
             ELSE RMul(A(x), A(y))
        b == IF same
             THEN RAdd(RMul(A(x), B(y)), RMul(B(x), A(y)))
             ELSE IF y.bn = 0 THEN RMul(B(x), A(y))
             ELSE IF x.bn = 0 THEN RMul(A(x), B(y))
             ELSE RMul(RMul(B(x), B(y)), <<g, 1>>)
        rs == IF same THEN x.s ELSE IF y.bn = 0 THEN x.s ELSE IF x.bn = 0 THEN y.s ELSE s
    IN  IF x.bn = 0 /\ y.bn = 0 THEN Fin(RMul(A(x), A(y)), <<0, 1>>, 1, x.e + y.e)
        ELSE IF ~same /\ x.bn # 0 /\ y.bn # 0 /\ (x.an # 0 \/ y.an # 0)
        THEN Unrepresentable
        ELSE Fin(a, b, rs, x.e + y.e)

FMul(x, y) ==
    IF x.k = "nan" \/ y.k = "nan" THEN NaN
    ELSE IF x.k = "inf" \/ y.k = "inf"
         THEN (IF FSign(x) * FSign(y) = 0 THEN NaN ELSE Inf(FSign(x) * FSign(y)))
    ELSE Round(FinMul(x, y))

\* 1 / (a + b sqrt s) = (a - b sqrt s) / (a^2 - b^2 s), for a finite non-zero value
FinInv(y) ==
    LET den == RAdd(RMul(A(y), A(y)), RNeg(RMul(RMul(B(y), B(y)), <<y.s, 1>>)))
    IN  IF y.bn = 0 THEN Fin(RInv(A(y)), <<0, 1>>, 1, -y.e)
        ELSE Fin(RMul(A(y), RInv(den)), RMul(RNeg(B(y)), RInv(den)), y.s, -y.e)

\* IEEE-754 division; a zero divisor is +0.0 (every divisor here is a count,
\* a difference of counts or a square root)
FDiv(x, y) ==
    IF x.k = "nan" \/ y.k = "nan" THEN NaN
    ELSE IF x.k = "inf" THEN (IF y.k = "inf" THEN NaN
                              ELSE Inf(x.an * (IF FinSign(y) < 0 THEN -1 ELSE 1)))
    ELSE IF y.k = "inf" THEN Zero
    ELSE IF IsZero(y) THEN (IF IsZero(x) THEN NaN ELSE Inf(FinSign(x)))
    ELSE Round(FinMul(x, FinInv(y)))

\* x.powi(2)
Powi2(x) == FMul(x, x)

\* f64::sqrt of a rational value: sqrt(n/d) = sqrt(n*d)/d
FSqrt(x) ==
    IF x.k = "nan" THEN NaN
    ELSE IF x.k = "inf" THEN (IF x.an > 0 THEN x ELSE NaN)
    ELSE IF FinSign(x) < 0 THEN NaN
    ELSE IF IsZero(x) THEN Zero
    ELSE IF x.bn # 0 \/ x.e % 2 # 0 THEN Unrepresentable
    ELSE IF rounding THEN Fin(RoundSqrtRat(A(x)), <<0, 1>>, 1, x.e \div 2)
    ELSE LET nd == x.an * x.ad
             g == SquarePart(nd)
         IN  IF g * g = nd
             THEN Fin(RNorm(g, x.ad), <<0, 1>>, 1, x.e \div 2)
             ELSE Fin(<<0, 1>>, RNorm(g, x.ad), nd \div (g * g), x.e \div 2)

\* f64::abs
FAbs(x) == IF x.k = "nan" THEN NaN ELSE IF FSign(x) < 0 THEN FNeg(x) ELSE x

\* the comparisons of f64: every comparison with NaN is false (the sign of
\* a difference is the same rounded or not)
FGt(x, y) == ~IsNaN(x) /\ ~IsNaN(y) /\ x # y /\ FSign(FSub(x, y)) > 0

FLt(x, y) == FGt(y, x)

\* f64 == and != (NaN is not equal to itself)
FEq(x, y) == ~IsNaN(x) /\ ~IsNaN(y) /\ x = y

FNe(x, y) == ~FEq(x, y)

(***************************************************************************)
(* usize arithmetic and casts.  A usize is an integer u: u >= 0 stands for *)
(* itself, u < 0 for the wrapped value 2^64 + u.                           *)
(***************************************************************************)
\* does a - b overflow (panic with overflow checks, wrap without)
SubOverflows(a, b) == a < b

\* a - b modulo 2^64
WrappingSub(a, b) == a - b

\* usize as f64: 2^64 - m rounds to 2^64 for every m <= 1024
UsizeAsF64(u) == IF u < 0 THEN Pow64 ELSE FromInt(u)

I32Max == 2147483647

\* f64 as i32: truncates toward zero, saturates, and sends NaN to 0
F64AsI32(x) ==
    IF x.k = "nan" THEN 0
    ELSE IF x.k = "inf" THEN (IF x.an > 0 THEN I32Max ELSE -I32Max - 1)
    ELSE IF x.e > 0 THEN (IF FinSign(x) > 0 THEN I32Max ELSE -I32Max - 1)
    ELSE IF x.e < 0 \/ x.bn # 0 THEN 0
    ELSE Sign(x.an) * (Abs(x.an) \div x.ad)

(***************************************************************************)
(* Samples: sequences of observations (integer-valued f64).                *)
(***************************************************************************)
RECURSIVE SumFrom(_, _, _)
\* values.iter().sum::<f64>(), folding from the left
SumFrom(values, i, acc) ==
    IF i > Len(values) THEN acc
    ELSE SumFrom(values, i + 1, FAdd(acc, values[i]))

\* a Vec built element by element (the same sequence, held as a tuple)
Vec(q) == q \o <<>>

FSum(values) == SumFrom(Vec(values), 1, Zero)

\* the observations of a sample as f64 values
\* the f64 observation held as the integer v in a sample
Observation(v) == Fin(<<v, 1>>, <<0, 1>>, 1, magnitude)

Obs(sample) == Vec([i \in 1..Len(sample) |-> Observation(sample[i])])

\* sum of squared deviations from m
SumSqDev(values, m) == FSum([i \in 1..Len(values) |-> Powi2(FSub(values[i], m))])

RECURSIVE SeqSumNat(_)
SeqSumNat(q) == IF q = <<>> THEN 0 ELSE Head(q) + SeqSumNat(Tail(q))

Some(x) == [some |-> TRUE, v |-> x]

None == [some |-> FALSE, v |-> Zero]

(***************************************************************************)
(* Distribution primitives (statrs FisherSnedecor and StudentsT).  The     *)
(* continuous functions are tabulated: a p-value is 1 exactly when the     *)
(* statistic is 0, and otherwise one representative of the band it falls   *)
(* in relative to the 5% and 1% critical values.                           *)
(***************************************************************************)
\* FisherSnedecor::new(d1, d2).is_ok()
FisherSnedecorOk(d1, d2) == IsFinite(d1) /\ IsFinite(d2) /\ FinSign(d1) > 0 /\ FinSign(d2) > 0

\* StudentsT::new(0.0, 1.0, df).is_ok()
StudentsTOk(df) == ~IsNaN(df) /\ FSign(df) > 0

\* index of a positive degrees-of-freedom value in a table with columns 1..n
\* and a last column n + 1 for everything beyond
DfIndex(df, n) ==
    IF df.k = "inf" \/ df.e > 0 THEN n + 1
    ELSE IF df.e < 0 THEN 1
    ELSE LET fl == df.an \div df.ad
         IN  IF fl < 1 THEN 1 ELSE IF fl > n THEN n + 1 ELSE fl

\* upper 5% points of F(d1, d2), times 10: rows d1 = 1..4, columns d2 = 1..6, inf
CritF05x10 ==
    << <<1614, 185, 101, 77, 66, 60, 38>>,
       <<1995, 190, 96, 69, 58, 51, 30>>,
       <<2157, 192, 93, 66, 54, 48, 26>>,
       <<2246, 193, 91, 64, 52, 45, 24>>,
       <<2300, 193, 90, 63, 51, 44, 22>> >>

\* upper 1% points of F(d1, d2), times 10
CritF01x10 ==
    << <<40520, 985, 341, 212, 163, 138, 66>>,
       <<49995, 990, 308, 180, 133, 109, 46>>,
       <<54030, 992, 295, 167, 121, 98, 38>>,
       <<56250, 993, 287, 160, 114, 92, 33>>,
       <<57640, 993, 282, 155, 110, 88, 30>> >>

CritF(table, d1, d2) == Rat(table[DfIndex(d1, 4)][DfIndex(d2, 6)], 10)

\* 1.0 - f_dist.cdf(f) for F(d1, d2)
FSurvival(f, d1, d2) ==
    IF IsNaN(f) THEN NaN
    ELSE IF FSign(f) <= 0 THEN One
    ELSE IF f.k = "inf" THEN Zero
    ELSE IF FLt(f, CritF(CritF05x10, d1, d2)) THEN Rat(1, 2)
    ELSE IF FLt(f, CritF(CritF01x10, d1, d2)) THEN Rat(1, 40)
    ELSE Rat(1, 200)

\* 0.975 quantiles of Student's t, times 10: df = 1..10, and beyond
QuantT975x10 == <<127, 43, 32, 28, 26, 24, 24, 23, 23, 22, 21>>

\* d.inverse_cdf(0.975) for StudentsT(0, 1, df); tends to 1.95996...
StudentsTInverseCdf975(df) ==
    IF df.k = "inf" \/ df.e > 0 THEN Rat(39, 20)
    ELSE Rat(QuantT975x10[DfIndex(df, 10)], 10)

\* 2.0 * (1.0 - d.cdf(t.abs())) for StudentsT(0, 1, df)
StudentsTTwoTailed(t, df) ==
    IF IsNaN(t) THEN NaN
    ELSE IF IsZero(t) THEN One
    ELSE IF t.k = "inf" THEN Zero
    ELSE IF FGt(FAbs(t), StudentsTInverseCdf975(df)) THEN Rat(1, 40)
    ELSE IF FEq(FAbs(t), StudentsTInverseCdf975(df)) THEN Rat(1, 20)
    ELSE Rat(1, 2)

(***************************************************************************)
(* StatisticalAnalysis::one_way_anova                                      *)
(***************************************************************************)
GroupSum(group) == FSum(Obs(group))

\* line 94: let mean = if n > 0 { sum / n as f64 } else { 0.0 }
MeanOrZero(sum, n) == IF n > 0 THEN FDiv(sum, FromInt(n)) ELSE Zero

GroupMeans(groups) ==
    Vec([i \in 1..Len(groups) |-> MeanOrZero(GroupSum(groups[i]), Len(groups[i]))])

GroupSizes(groups) == Vec([i \in 1..Len(groups) |-> Len(groups[i])])

\* the line of the first usize subtraction of lines 122-124 that overflows,
\* 0 if none does
OverflowSiteOneWay(k, n_total) ==
    IF SubOverflows(k, 1) THEN 122
    ELSE IF SubOverflows(n_total, k) THEN 123
    ELSE IF SubOverflows(n_total, 1) THEN 124
    ELSE 0

one_way_anova_overflow_site(groups) ==
    OverflowSiteOneWay(Len(groups), SeqSumNat(GroupSizes(groups)))

one_way_anova_overflows(groups) == one_way_anova_overflow_site(groups) # 0

\* if d > 0.0 { ss / d } else { 0.0 }
MeanSquare(ss, d) == IF FGt(d, Zero) THEN FDiv(ss, d) ELSE Zero

\* the ratio without a guard
FRatioUnguarded(ms_num, ms_den) == FDiv(ms_num, ms_den)

\* the ratio guarded against a zero denominator only
FRatioUnlessZero(ms_num, ms_den) == IF FNe(ms_den, Zero) THEN FDiv(ms_num, ms_den) ELSE Zero

\* if ms_den > 0.0 { ms_num / ms_den } else { 0.0 }
FRatio(ms_num, ms_den) == IF FGt(ms_den, Zero) THEN FDiv(ms_num, ms_den) ELSE Zero

\* the constructor called whatever the degrees of freedom
UnwrapUnguarded(df_between, df_within) == ~FisherSnedecorOk(df_between, df_within)

\* line 135: does FisherSnedecor::new(df_between, df_within).unwrap() panic
UnwrapFails(df_between, df_within) ==
    FGt(df_between, Zero) /\ FGt(df_within, Zero) /\ ~FisherSnedecorOk(df_between, df_within)

\* lines 134-139
OneWayPValue(f_statistic, df_between, df_within) ==
    IF FGt(df_between, Zero) /\ FGt(df_within, Zero)
    THEN FSurvival(f_statistic, df_between, df_within)
    ELSE One

OneWayBetweenRow(ssb, df_between, msb, f_statistic, p_value) ==
    [ss |-> ssb, df |-> F64AsI32(df_between), ms |-> msb,
     f |-> Some(f_statistic), p |-> Some(p_value)]

OneWayWithinRow(ssw, df_within, msw) ==
    [ss |-> ssw, df |-> F64AsI32(df_within), ms |-> msw, f |-> None, p |-> None]

OneWayTotalRow(sst, df_total) ==
    [ss |-> sst, df |-> F64AsI32(df_total), ms |-> Zero, f |-> None, p |-> None]

OneWayDfBetween(k) == UsizeAsF64(WrappingSub(k, 1))

OneWayDfWithin(n_total, k) == UsizeAsF64(WrappingSub(n_total, k))

OneWayDfTotal(n_total) == UsizeAsF64(WrappingSub(n_total, 1))

\* the between sum of squares taken about the mean of the first group
OneWaySsbAboutFirst(groups, group_means, grand_mean) ==
    FSum([i \in 1..Len(groups) |->
             FMul(FromInt(Len(groups[i])), Powi2(FSub(group_means[i], group_means[1])))])

\* lines 103-108
OneWaySsb(groups, group_means, grand_mean) ==
    FSum([i \in 1..Len(groups) |->
             FMul(FromInt(Len(groups[i])), Powi2(FSub(group_means[i], grand_mean)))])

\* lines 110-116
OneWaySsw(groups, group_means) ==
    FSum([i \in 1..Len(groups) |-> SumSqDev(Obs(groups[i]), group_means[i])])

\* line 142
RSquared(ssb, sst) == IF FGt(sst, Zero) THEN FDiv(ssb, sst) ELSE Zero

\* the result with the 0.01 flag taken at the 0.05 level
OneWayResultOneLevel(gm, gs, grand_mean, ssb, ssw, sst, dfb, dfw, dft, msb, msw, f, p) ==
    [source_between |-> OneWayBetweenRow(ssb, dfb, msb, f, p),
     source_within |-> OneWayWithinRow(ssw, dfw, msw),
     source_total |-> OneWayTotalRow(sst, dft),
     r_squared |-> RSquared(ssb, sst),
     is_significant_05 |-> FLt(p, Rat(5, 100)),
     is_significant_01 |-> FLt(p, Rat(5, 100)),
     group_means |-> gm,
     group_sizes |-> gs,
     grand_mean |-> grand_mean]

\* lines 144-172
OneWayResult(gm, gs, grand_mean, ssb, ssw, sst, dfb, dfw, dft, msb, msw, f, p) ==
    [source_between |-> OneWayBetweenRow(ssb, dfb, msb, f, p),
     source_within |-> OneWayWithinRow(ssw, dfw, msw),
     source_total |-> OneWayTotalRow(sst, dft),
     r_squared |-> RSquared(ssb, sst),
     is_significant_05 |-> FLt(p, Rat(5, 100)),
     is_significant_01 |-> FLt(p, Rat(1, 100)),
     group_means |-> gm,
     group_sizes |-> gs,
     grand_mean |-> grand_mean]

\* lines 130-139
OneWayTest(gm, gs, grand_mean, ssb, ssw, sst, dfb, dfw, dft, msb, msw, f) ==
    OneWayResult(gm, gs, grand_mean, ssb, ssw, sst, dfb, dfw, dft, msb, msw, f,
                 OneWayPValue(f, dfb, dfw))

\* lines 126-131
OneWayMeanSquares(gm, gs, grand_mean, ssb, ssw, sst, dfb, dfw, dft, msb, msw) ==
    OneWayTest(gm, gs, grand_mean, ssb, ssw, sst, dfb, dfw, dft, msb, msw,
               FRatio(msb, msw))

\* lines 118-128
OneWayDf(k, n_total, gm, gs, grand_mean, ssb, ssw, dfb, dfw) ==
    OneWayMeanSquares(gm, gs, grand_mean, ssb, ssw, FAdd(ssb, ssw), dfb, dfw,
                      OneWayDfTotal(n_total), MeanSquare(ssb, dfb), MeanSquare(ssw, dfw))

\* lines 101-124
OneWaySums(groups, n_total, gm, gs, grand_mean) ==
    OneWayDf(Len(groups), n_total, gm, gs, grand_mean,
             OneWaySsb(groups, gm, grand_mean), OneWaySsw(groups, gm),
             OneWayDfBetween(Len(groups)), OneWayDfWithin(n_total, Len(groups)))

\* lines 84-101
OneWayTotals(groups, n_total, gm, gs) ==
    OneWaySums(groups, n_total, gm, gs,
               MeanOrZero(FSum([i \in 1..Len(groups) |-> GroupSum(groups[i])]), n_total))

one_way_anova(groups) ==
    OneWayTotals(groups, SeqSumNat(GroupSizes(groups)), GroupMeans(groups), GroupSizes(groups))

\* line 135 reached with parameters the distribution rejects
one_way_anova_unwrap_fails(groups) ==
    UnwrapFails(OneWayDfBetween(Len(groups)),
                OneWayDfWithin(SeqSumNat(GroupSizes(groups)), Len(groups)))

(***************************************************************************)
(* StatisticalAnalysis::descriptive (statrs Data)                          *)
(***************************************************************************)
RECURSIVE Insert(_, _)
Insert(x, sorted) ==
    IF sorted = <<>> THEN <<x>>
    ELSE IF x <= Head(sorted) THEN <<x>> \o sorted
    ELSE <<Head(sorted)>> \o Insert(x, Tail(sorted))

RECURSIVE SortAsc(_)
SortAsc(q) == IF q = <<>> THEN <<>> ELSE Insert(Head(q), SortAsc(Tail(q)))

\* Data::variance(): NaN for fewer than two observations
DataVariance(values, mean) ==
    IF Len(values) < 2 THEN NaN
    ELSE FDiv(SumSqDev(values, mean), FromInt(Len(values) - 1))

\* Data::median() of a non-empty sample
DataMedian(sample) ==
    LET sorted == SortAsc(sample)
        n == Len(sorted)
        half == n \div 2
    IN  IF n % 2 = 1 THEN Observation(sorted[half + 1])
        ELSE FDiv(FAdd(Observation(sorted[half]), Observation(sorted[half + 1])), FromInt(2))

\* Data::quantile(num/den) of a non-empty sample, 0 < num/den < 1:
\* h = (n + 1/3) * tau + 1/3, interpolating between the order statistics
DataQuantile(sample, num, den) ==
    LET sorted == SortAsc(sample)
        n == Len(sorted)
        h == RAdd(RMul(<<3 * n + 1, 3>>, <<num, den>>), <<1, 3>>)
        hf == h[1] \div h[2]
        frac == Fin(RAdd(h, <<-hf, 1>>), <<0, 1>>, 1, 0)
    IN  IF hf <= 0 THEN Observation(sorted[1])
        ELSE IF hf >= n THEN Observation(sorted[n])
        ELSE FAdd(Observation(sorted[hf]),
                  FMul(frac, FSub(Observation(sorted[hf + 1]), Observation(sorted[hf]))))

\* what the statistics of an empty Data would be without the guard of line 45
EmptyDataStats ==
    [n |-> 0, mean |-> NaN, std_dev |-> NaN, std_error |-> NaN, min |-> NaN,
     max |-> NaN, median |-> NaN, q1 |-> NaN, q3 |-> NaN, variance |-> NaN,
     cv |-> NaN]

ZeroStats ==
    [n |-> 0, mean |-> Zero, std_dev |-> Zero, std_error |-> Zero, min |-> Zero,
     max |-> Zero, median |-> Zero, q1 |-> Zero, q3 |-> Zero, variance |-> Zero,
     cv |-> Zero]

\* line 45: if n == 0
DescriptiveIsEmpty(values) == Len(values) = 0

descriptive(values) ==
    IF DescriptiveIsEmpty(values) THEN ZeroStats
    ELSE LET n == Len(values)
             sorted == SortAsc(values)
             mean == FDiv(FSum(Obs(values)), FromInt(n))
             variance == DataVariance(Obs(values), mean)
             std_dev == FSqrt(variance)
             std_error == FDiv(std_dev, FSqrt(FromInt(n)))
         IN  [n |-> n, mean |-> mean, std_dev |-> std_dev, std_error |-> std_error,
              min |-> Observation(sorted[1]), max |-> Observation(sorted[n]),
              median |-> DataMedian(values),
              q1 |-> DataQuantile(values, 1, 4),
              q3 |-> DataQuantile(values, 3, 4),
              variance |-> variance,
              cv |-> IF FNe(mean, Zero)
                     THEN FMul(FDiv(std_dev, mean), FromInt(100))
                     ELSE Zero]

\* the return statement taken: line 46 or line 67
descriptive_site(values) == IF DescriptiveIsEmpty(values) THEN 46 ELSE 67

(***************************************************************************)
(* StatisticalAnalysis::t_test                                             *)
(***************************************************************************)
NeutralTTest ==
    [t_statistic |-> Zero, p_value |-> One, df |-> Zero, mean_difference |-> Zero,
     ci_lower |-> Zero, ci_upper |-> Zero, is_significant |-> FALSE]

\* the length test of line 331 without its paired conjunct
TTestMismatchAnyMode(group1, group2, paired) == Len(group1) # Len(group2)

\* line 331: if paired && group1.len() != group2.len()
TTestMismatch(group1, group2, paired) == paired /\ Len(group1) # Len(group2)

\* lines 381-389
TTestPValue(t_stat, df) ==
    IF FGt(df, Zero)
    THEN (IF StudentsTOk(df) THEN StudentsTTwoTailed(t_stat, df) ELSE One)
    ELSE One

\* lines 392-396
TTestCritical(df) ==
    IF FGt(df, Zero)
    THEN (IF StudentsTOk(df) THEN StudentsTInverseCdf975(df) ELSE Rat(196, 100))
    ELSE Rat(196, 100)

\* the back-derived standard error with 1.0 in place of 0.0
BackDerivedSeOrOne(mean_diff, t_stat) ==
    IF FNe(t_stat, Zero) THEN FDiv(mean_diff, t_stat) ELSE One

\* line 398: let se = if t_stat != 0.0 { mean_diff / t_stat } else { 0.0 }
BackDerivedSe(mean_diff, t_stat) ==
    IF FNe(t_stat, Zero) THEN FDiv(mean_diff, t_stat) ELSE Zero

\* lines 399-410
TTestResult(t_stat, df, mean_diff, p_value, margin) ==
    [t_statistic |-> t_stat, p_value |-> p_value, df |-> df,
     mean_difference |-> mean_diff,
     ci_lower |-> FSub(mean_diff, margin),
     ci_upper |-> FAdd(mean_diff, margin),
     is_significant |-> FLt(p_value, Rat(5, 100))]

\* lines 380-411: the part common to both branches
TTestFinish(t_stat, df, mean_diff) ==
    TTestResult(t_stat, df, mean_diff, TTestPValue(t_stat, df),
                FMul(TTestCritical(df), BackDerivedSe(mean_diff, t_stat)))

\* line 358 / line 370: let t = if se > 0.0 { mean / se } else { 0.0 }
TStatistic(mean, se) == IF FGt(se, Zero) THEN FDiv(mean, se) ELSE Zero

\* lines 352-359
PairedStats(differences, n, mean_d) ==
    TTestFinish(TStatistic(mean_d,
                           FSqrt(FDiv(FDiv(SumSqDev(differences, mean_d), FSub(n, One)), n))),
                FSub(n, One), mean_d)

\* lines 345-351
PairedDifferences(differences) ==
    PairedStats(differences, FromInt(Len(differences)),
                FDiv(FSum(differences), FromInt(Len(differences))))

\* lines 345-359: the paired branch (the samples have the same length)
PairedBranch(group1, group2) ==
    PairedDifferences(Vec([i \in 1..Len(group1) |->
                              FSub(Observation(group1[i]), Observation(group2[i]))]))

\* line 375
WelchDf(num, denom, n1, n2) ==
    IF FGt(denom, Zero) THEN FDiv(num, denom) ELSE FSub(FAdd(n1, n2), FromInt(2))

\* lines 369-377; v1 = var1 / n1, v2 = var2 / n2
WelchStats(n1, n2, mean_diff, v1, v2) ==
    TTestFinish(TStatistic(mean_diff, FSqrt(FAdd(v1, v2))),
                WelchDf(Powi2(FAdd(v1, v2)),
                        FAdd(FDiv(Powi2(v1), FSub(n1, One)), FDiv(Powi2(v2), FSub(n2, One))),
                        n1, n2),
                mean_diff)

\* lines 366-367
WelchVariances(group1, group2, n1, n2, mean1, mean2) ==
    WelchStats(n1, n2, FSub(mean1, mean2),
               FDiv(FDiv(SumSqDev(Obs(group1), mean1), FSub(n1, One)), n1),
               FDiv(FDiv(SumSqDev(Obs(group2), mean2), FSub(n2, One)), n2))

\* lines 362-365
WelchMeans(group1, group2, n1, n2) ==
    WelchVariances(group1, group2, n1, n2,
                   FDiv(GroupSum(group1), n1), FDiv(GroupSum(group2), n2))

\* lines 362-377: the independent (Welch) branch
WelchBranch(group1, group2) ==
    WelchMeans(group1, group2, FromInt(Len(group1)), FromInt(Len(group2)))

t_test(group1, group2, paired) ==
    IF TTestMismatch(group1, group2, paired) THEN NeutralTTest
    ELSE IF paired THEN PairedBranch(group1, group2)
    ELSE WelchBranch(group1, group2)

\* the return statement taken: line 332 or line 402
t_test_site(group1, group2, paired) ==
    IF TTestMismatch(group1, group2, paired) THEN 332 ELSE 402

(***************************************************************************)
(* StatisticalAnalysis::lsd_test                                           *)
(***************************************************************************)
\* lines 429-435
LsdPValue(t, df_error) ==
    IF FGt(df_error, Zero)
    THEN (IF StudentsTOk(df_error) THEN StudentsTTwoTailed(t, df_error) ELSE One)
    ELSE One

\* a fallback critical value of 2.0 in place of the 1.96 of line 439
LsdCriticalRounded(df_error) ==
    IF StudentsTOk(df_error) THEN StudentsTInverseCdf975(df_error) ELSE FromInt(2)

\* lines 437-439
LsdCritical(df_error) ==
    IF StudentsTOk(df_error) THEN StudentsTInverseCdf975(df_error) ELSE Rat(196, 100)

\* lines 442-451
LsdRecord(i, j, mean_diff, se, t, p_value, lsd) ==
    [group_i |-> i, group_j |-> j, mean_difference |-> mean_diff,
     std_error |-> se, t_statistic |-> t, p_value |-> p_value, lsd |-> lsd,
     is_significant |-> FGt(FAbs(mean_diff), lsd)]

\* lines 427-440
LsdStats(df_error, i, j, mean_diff, se, t) ==
    LsdRecord(i, j, mean_diff, se, t, LsdPValue(t, df_error),
              FMul(LsdCritical(df_error), se))

\* lines 424-427
LsdError(df_error, i, j, mean_diff, se) ==
    LsdStats(df_error, i, j, mean_diff, se, TStatistic(mean_diff, se))

\* lines 420-426
LsdMeans(mse, df_error, i, j, n1, n2, mean1, mean2) ==
    LsdError(df_error, i, j, FSub(mean1, mean2),
             FSqrt(FMul(mse, FAdd(FDiv(One, n1), FDiv(One, n2)))))

\* lines 420-451: the comparison of groups i and j (0-based)
LsdComparison(groups, mse, df_error, i, j) ==
    LsdMeans(mse, df_error, i, j,
             FromInt(Len(groups[i + 1])), FromInt(Len(groups[j + 1])),
             FDiv(GroupSum(groups[i + 1]), FromInt(Len(groups[i + 1]))),
             FDiv(GroupSum(groups[j + 1]), FromInt(Len(groups[j + 1]))))

\* an inner loop that starts at i instead of i + 1
LsdInnerStartAtSelf(i) == i

\* line 419: for j in (i + 1)..k
LsdInnerStart(i) == i + 1

RECURSIVE LsdLoop(_, _, _, _, _, _)
\* lines 418-453: the two nested loops, pushing one comparison per (i, j)
LsdLoop(groups, mse, df_error, i, j, comparisons) ==
    LET k == Len(groups)
    IN  IF i >= k THEN comparisons
        ELSE IF j >= k
             THEN LsdLoop(groups, mse, df_error, i + 1, LsdInnerStart(i + 1), comparisons)
        ELSE LsdLoop(groups, mse, df_error, i, j + 1,
                     Append(comparisons, LsdComparison(groups, mse, df_error, i, j)))

lsd_test(groups, mse, df_error) ==
    LsdLoop(groups, mse, df_error, 0, LsdInnerStart(0), <<>>)

(***************************************************************************)
(* StatisticalAnalysis::two_way_anova and f_p_value.  data is a function   *)
(* from keys <<a, b>> (0-based) to samples; order is the order in which    *)
(* the HashMap data is iterated and out_order the order in which the       *)
(* HashMap cell_means is consumed: both are arbitrary permutations of the  *)
(* keys.                                                                   *)
(***************************************************************************)
\* lines 320-327
f_p_value(f, df1, df2) ==
    IF FGt(df1, Zero) /\ FGt(df2, Zero)
    THEN (IF FisherSnedecorOk(df1, df2) THEN FSurvival(f, df1, df2) ELSE One)
    ELSE One

\* the keys of order whose factor level at position pos (1: a, 2: b) is lvl
KeysAt(order, pos, lvl) == SelectSeq(order, LAMBDA key : key[pos] = lvl)

\* factor_a_sums / factor_b_sums after the loop of lines 190-202
FactorSums(data, order, pos, levels) ==
    Vec([l \in 1..levels |->
            LET keys == KeysAt(order, pos, l - 1)
            IN  FSum([i \in 1..Len(keys) |-> GroupSum(data[keys[i]])])])

\* factor_a_n / factor_b_n after the loop of lines 190-202
FactorCounts(data, order, pos, levels) ==
    Vec([l \in 1..levels |->
            LET keys == KeysAt(order, pos, l - 1)
            IN  SeqSumNat(Vec([i \in 1..Len(keys) |-> Len(data[keys[i]])]))])

\* line 242: data.values().next().map(|v| v.len()).unwrap_or(1)
Replications(data, order) == IF order = <<>> THEN 1 ELSE Len(data[order[1]])

\* lines 244-251: does the cell (a, b) take part in the interaction sum
CellCounted(data, key) == key \in DOMAIN data

\* n_total after the loop of lines 190-202
TotalCount(data, order) ==
    SeqSumNat(Vec([i \in 1..Len(order) |-> Len(data[order[i]])]))

\* the line of the first usize subtraction of lines 256-260 that overflows,
\* 0 if none does
OverflowSiteTwoWay(n_total, factor_a_levels, factor_b_levels) ==
    IF SubOverflows(factor_a_levels, 1) THEN 256
    ELSE IF SubOverflows(factor_b_levels, 1) THEN 257
    ELSE IF SubOverflows(n_total, factor_a_levels * factor_b_levels) THEN 259
    ELSE IF SubOverflows(n_total, 1) THEN 260
    ELSE 0

two_way_anova_overflow_site(data, order, factor_a_levels, factor_b_levels) ==
    OverflowSiteTwoWay(TotalCount(data, order), factor_a_levels, factor_b_levels)

two_way_anova_overflows(data, order, factor_a_levels, factor_b_levels) ==
    two_way_anova_overflow_site(data, order, factor_a_levels, factor_b_levels) # 0

TestedRow(ss, df, ms, f, p) ==
    [ss |-> ss, df |-> F64AsI32(df), ms |-> ms, f |-> Some(f), p |-> Some(p)]

\* a within/error/total row that carries an F statistic and a p-value
UntestedRowWithTest(ss, df, ms) ==
    [ss |-> ss, df |-> F64AsI32(df), ms |-> ms, f |-> Some(Zero), p |-> Some(One)]

UntestedRow(ss, df, ms) ==
    [ss |-> ss, df |-> F64AsI32(df), ms |-> ms, f |-> None, p |-> None]

TwoWayDfError(n_total, factor_a_levels, factor_b_levels) ==
    UsizeAsF64(WrappingSub(n_total, factor_a_levels * factor_b_levels))

\* line 316: cell_means.into_iter().collect(), consumed in out_order
CollectCellMeans(cell_mean, out_order) ==
    Vec([i \in 1..Len(out_order) |-> <<out_order[i], cell_mean[out_order[i]]>>])

\* the SS of one factor with every level weighted by 1
FactorSSUnweighted(n, levels, means, grand_mean) ==
    FSum([l \in 1..levels |-> Powi2(FSub(means[l], grand_mean))])

\* lines 219-231: SS of one factor; n is factor_a_n or factor_b_n
FactorSS(n, levels, means, grand_mean) ==
    FSum([l \in 1..levels |->
             FMul(FromInt(SeqSumNat(n) \div levels), Powi2(FSub(means[l], grand_mean)))])

\* lines 234-239
TotalSS(data, order, grand_mean) ==
    FSum([i \in 1..Len(order) |-> SumSqDev(Obs(data[order[i]]), grand_mean)])

\* the term of cell (a, b) without the replication factor
InteractionTermUnreplicated(r, cell_mean, mean_a, mean_b, grand_mean) ==
    Powi2(FSub(cell_mean, FSub(FAdd(mean_a, mean_b), grand_mean)))

\* lines 247-248: the term of cell (a, b) in the interaction sum
InteractionTerm(r, cell_mean, mean_a, mean_b, grand_mean) ==
    FMul(FromInt(r), Powi2(FSub(cell_mean, FSub(FAdd(mean_a, mean_b), grand_mean))))

\* lines 242-251
InteractionSS(data, order, al, bl, cell_mean, a_means, b_means, grand_mean) ==
    FSum([c \in 1..(al * bl) |->
             IF CellCounted(data, <<(c - 1) \div bl, (c - 1) % bl>>)
             THEN InteractionTerm(Replications(data, order),
                                  cell_mean[<<(c - 1) \div bl, (c - 1) % bl>>],
                                  a_means[((c - 1) \div bl) + 1],
                                  b_means[((c - 1) % bl) + 1], grand_mean)
             ELSE Zero])

\* lines 273-317; cell_means is still held as a map
TwoWayResult(cm, am, bm, ssa, ssb, ssab, sse, sst, dfa, dfb, dfab, dfe, dft, msa, msb, msab, mse, fa, fb, fab) ==
    [factor_a |-> TestedRow(ssa, dfa, msa, fa, f_p_value(fa, dfa, dfe)),
     factor_b |-> TestedRow(ssb, dfb, msb, fb, f_p_value(fb, dfb, dfe)),
     interaction |-> TestedRow(ssab, dfab, msab, fab, f_p_value(fab, dfab, dfe)),
     error |-> UntestedRow(sse, dfe, mse),
     total |-> UntestedRow(sst, dft, Zero),
     factor_a_means |-> am,
     factor_b_means |-> bm,
     cell_means |-> cm]

\* lines 268-271
TwoWayFStatistics(cm, am, bm, ssa, ssb, ssab, sse, sst, dfa, dfb, dfab, dfe, dft, msa, msb, msab, mse) ==
    TwoWayResult(cm, am, bm, ssa, ssb, ssab, sse, sst, dfa, dfb, dfab, dfe, dft,
                 msa, msb, msab, mse,
                 FRatio(msa, mse), FRatio(msb, mse), FRatio(msab, mse))

\* lines 262-266
TwoWayMeanSquares(cm, am, bm, ssa, ssb, ssab, sse, sst, dfa, dfb, dfab, dfe, dft) ==
    TwoWayFStatistics(cm, am, bm, ssa, ssb, ssab, sse, sst, dfa, dfb, dfab, dfe, dft,
                      MeanSquare(ssa, dfa), MeanSquare(ssb, dfb),
                      MeanSquare(ssab, dfab), MeanSquare(sse, dfe))

\* lines 253-260
TwoWayDf(al, bl, n_total, cm, am, bm, ssa, ssb, ssab, sst, dfa, dfb) ==
    TwoWayMeanSquares(cm, am, bm, ssa, ssb, ssab,
                      FSub(FSub(FSub(sst, ssa), ssb), ssab), sst,
                      dfa, dfb, FMul(dfa, dfb),
                      TwoWayDfError(n_total, al, bl),
                      UsizeAsF64(WrappingSub(n_total, 1)))

\* lines 219-257
TwoWaySS(data, order, al, bl, n_total, cm, a_n, b_n, grand_mean, am, bm) ==
    TwoWayDf(al, bl, n_total, cm, am, bm,
             FactorSS(a_n, al, am, grand_mean),
             FactorSS(b_n, bl, bm, grand_mean),
             InteractionSS(data, order, al, bl, cm, am, bm, grand_mean),
             TotalSS(data, order, grand_mean),
             UsizeAsF64(WrappingSub(al, 1)), UsizeAsF64(WrappingSub(bl, 1)))

\* lines 206-217: the marginal means of one factor
FactorMeans(sums, n, levels) ==
    Vec([l \in 1..levels |-> MeanOrZero(sums[l], n[l])])

\* lines 204-217
TwoWayMeans(data, order, al, bl, n_total, cm, grand_sum, a_sums, b_sums, a_n, b_n) ==
    TwoWaySS(data, order, al, bl, n_total, cm, a_n, b_n,
             MeanOrZero(grand_sum, n_total),
             FactorMeans(a_sums, a_n, al), FactorMeans(b_sums, b_n, bl))

\* lines 190-202: the cell means inserted into cell_means
CellMeans(data) ==
    [key \in DOMAIN data |-> MeanOrZero(GroupSum(data[key]), Len(data[key]))]

\* the result with cell_means still held as a map
two_way_anova(data, order, factor_a_levels, factor_b_levels) ==
    TwoWayMeans(data, order, factor_a_levels, factor_b_levels,
                TotalCount(data, order),
                CellMeans(data),
                FSum([i \in 1..Len(order) |-> GroupSum(data[order[i]])]),
                FactorSums(data, order, 1, factor_a_levels),
                FactorSums(data, order, 2, factor_b_levels),
                FactorCounts(data, order, 1, factor_a_levels),
                FactorCounts(data, order, 2, factor_b_levels))

(***************************************************************************)
(* The inputs of the calls.                                                *)
(***************************************************************************)
SeqsUpTo(S, n) == UNION {[1..m -> S] : m \in 0..n}

IsAscending(q) == \A i \in 1..(Len(q) - 1) : q[i] <= q[i + 1]

\* samples listed in ascending order (no computation but the pairing of
\* t_test depends on the order of a sample)
Samples(S, n) == {q \in SeqsUpTo(S, n) : IsAscending(q)}

\* all orders in which the elements of the finite set S can be iterated
Orders(S) == {q \in [1..Cardinality(S) -> S] : \A i, j \in DOMAIN q : i # j => q[i] # q[j]}

Keys(factor_a_levels, factor_b_levels) ==
    (0..(factor_a_levels - 1)) \X (0..(factor_b_levels - 1))

NoData == [key \in {} |-> <<>>]

Call(fn, groups, paired, mse, df_error, levels, data) ==
    [fn |-> fn, groups |-> groups, paired |-> paired, mse |-> mse,
     df_error |-> df_error, levels |-> levels, data |-> data]

DescriptiveInputs ==
    {Call("descriptive", <<values>>, FALSE, Zero, Zero, <<1, 1>>, NoData) :
        values \in SeqsUpTo(Values, MaxLen)}

\* calls of one_way_anova on groups of at most n observations drawn from S
OneWayCalls(S, n) ==
    {Call("one_way_anova", groups, FALSE, Zero, Zero, <<1, 1>>, NoData) :
        groups \in SeqsUpTo(Samples(S, n), MaxGroups)}

OneWayInputs == OneWayCalls(Values, MaxLen)

\* calls of t_test on samples of at most n observations drawn from S
TTestCalls(S, n) ==
    {Call("t_test", <<g[1], g[2]>>, g[3], Zero, Zero, <<1, 1>>, NoData) :
        g \in Samples(S, n) \X SeqsUpTo(S, n) \X BOOLEAN}

TTestInputs == TTestCalls(Values, MaxLen)

LsdMse == {Zero, Rat(1, 2), FromInt(2)}

LsdDfError == {FromInt(-1), Zero, FromInt(2), NaN}

LsdInputs ==
    {Call("lsd_test", g[1], FALSE, g[2], g[3], <<1, 1>>, NoData) :
        g \in SeqsUpTo(Samples(FewValues, MaxLen), MaxGroups) \X LsdMse \X LsdDfError}

\* complete or partial cell mappings with at most MaxCells cells, keys in
\* range, observations drawn from S
CellMappingsOver(S, factor_a_levels, factor_b_levels) ==
    UNION {[cells -> Samples(S, MaxLen)] :
              cells \in {c \in SUBSET Keys(factor_a_levels, factor_b_levels) :
                            Cardinality(c) <= MaxCells}}

CellMappings(factor_a_levels, factor_b_levels) ==
    CellMappingsOver(FewValues, factor_a_levels, factor_b_levels)

\* balanced complete designs: every cell present with the same r >= 1
\* observations drawn from S
BalancedDesigns(S, factor_a_levels, factor_b_levels) ==
    {data \in [Keys(factor_a_levels, factor_b_levels) -> Samples(S, MaxLen)] :
        \A c \in DOMAIN data : Len(data[c]) = Len(data[<<0, 0>>]) /\ Len(data[c]) >= 1}

\* calls of two_way_anova on mappings with observations drawn from S
TwoWayCalls(S) ==
    UNION {{Call("two_way_anova", <<>>, FALSE, Zero, Zero, lv, data) :
               data \in CellMappingsOver(S, lv[1], lv[2])
                         \cup BalancedDesigns(S, lv[1], lv[2])} : lv \in Levels \X Levels}

TwoWayInputs == TwoWayCalls(FewValues)

Inputs == DescriptiveInputs \cup OneWayInputs \cup TTestInputs \cup LsdInputs \cup TwoWayInputs

\* the calls made with rounding arithmetic
RoundedInputs ==
    OneWayCalls(RoundedValues, MaxLenRounded)
       \cup TTestCalls(RoundedValues, MaxLenRounded)
       \cup TwoWayCalls(FewRoundedValues)

NoResult == [none |-> TRUE]

(***************************************************************************)
(* The specification: one call of one entry point on arbitrary inputs,     *)
(* in a build with or without integer overflow checks.                     *)
(***************************************************************************)
Init ==
    /\ overflow_checks \in BOOLEAN
    /\ input \in Inputs
    /\ rounding = FALSE
    /\ magnitude = 0
    /\ pc = "ready"
    /\ site = 0
    /\ result = NoResult

Return(line, value) ==
    /\ pc' = "returned"
    /\ site' = line
    /\ result' = value
    /\ UNCHANGED <<overflow_checks, input, rounding, magnitude>>

\* a panic unwinds out of the call: nothing is returned
Panic(line) ==
    /\ pc' = "panicked"
    /\ site' = line
    /\ result' = NoResult
    /\ UNCHANGED <<overflow_checks, input, rounding, magnitude>>

Descriptive ==
    /\ pc = "ready"
    /\ input.fn = "descriptive"
    /\ Return(descriptive_site(input.groups[1]), descriptive(input.groups[1]))

OneWayAnova ==
    /\ pc = "ready"
    /\ input.fn = "one_way_anova"
    /\ IF overflow_checks /\ one_way_anova_overflows(input.groups)
       THEN Panic(one_way_anova_overflow_site(input.groups))
       ELSE IF one_way_anova_unwrap_fails(input.groups)
       THEN Panic(135)
       ELSE Return(144, one_way_anova(input.groups))

\* line 316: the result with cell_means collected into a Vec
CollectResult(res, out_order) ==
    [res EXCEPT !.cell_means = CollectCellMeans(res.cell_means, out_order)]

\* lines 278-317: the result, with cell_means collected in any order
TwoWayReturn(res, out_orders) ==
    \E out_order \in out_orders :
       Return(278, CollectResult(res, out_order))

TwoWayAnova ==
    /\ pc = "ready"
    /\ input.fn = "two_way_anova"
    /\ \E order \in Orders(DOMAIN input.data) :
          IF overflow_checks
             /\ two_way_anova_overflows(input.data, order, input.levels[1], input.levels[2])
          THEN Panic(two_way_anova_overflow_site(input.data, order,
                                                 input.levels[1], input.levels[2]))
          ELSE TwoWayReturn(two_way_anova(input.data, order, input.levels[1], input.levels[2]),
                            Orders(DOMAIN input.data))

TTest ==
    /\ pc = "ready"
    /\ input.fn = "t_test"
    /\ Return(t_test_site(input.groups[1], input.groups[2], input.paired),
              t_test(input.groups[1], input.groups[2], input.paired))

LsdTest ==
    /\ pc = "ready"
    /\ input.fn = "lsd_test"
    /\ Return(455, lsd_test(input.groups, input.mse, input.df_error))

Next == Descriptive \/ OneWayAnova \/ TwoWayAnova \/ TTest \/ LsdTest

Spec == Init /\ [][Next]_vars

(***************************************************************************)
(* The same calls with arithmetic that rounds.                             *)
(***************************************************************************)
InitRounded ==
    /\ overflow_checks \in BOOLEAN
    /\ input \in RoundedInputs
    /\ rounding = TRUE
    /\ magnitude = 0
    /\ pc = "ready"
    /\ site = 0
    /\ result = NoResult

NextRounded == OneWayAnova \/ TwoWayAnova \/ TTest

SpecRounded == InitRounded /\ [][NextRounded]_vars

(***************************************************************************)
(* one_way_anova on observations of ordinary size and of size 2^512, whose *)
(* squares are not finite.                                                 *)
(***************************************************************************)
Magnitudes == {0, 16}

InitExtreme ==
    /\ overflow_checks \in BOOLEAN
    /\ input \in OneWayInputs
    /\ rounding = FALSE
    /\ magnitude \in Magnitudes
    /\ pc = "ready"
    /\ site = 0
    /\ result = NoResult

NextExtreme == OneWayAnova

SpecExtreme == InitExtreme /\ [][NextExtreme]_vars

(***************************************************************************)
(* analysis_handler::anova_analysis (main.rs): one request.  input is the  *)
(* request (its JSON body and whether the middleware attached an           *)
(* AuthenticatedUser); result holds the handler's locals while it runs and *)
(* the response once it has returned.                                      *)
(***************************************************************************)
AnovaRequests ==
    {[fn |-> "anova_analysis", groups |-> groups, authenticated |-> authenticated] :
        groups \in SeqsUpTo(Samples(Values, MaxLen), MaxGroups),
        authenticated \in BOOLEAN}

InitHandler ==
    /\ overflow_checks \in BOOLEAN
    /\ input \in AnovaRequests
    /\ rounding = FALSE
    /\ magnitude = 0
    /\ pc = "ready"
    /\ site = 0
    /\ result = NoResult

\* the handler moves on to the statement at line with the locals value
Step(next, line, value) ==
    /\ pc' = next
    /\ site' = line
    /\ result' = value
    /\ UNCHANGED <<overflow_checks, input, rounding, magnitude>>

\* errors.rs line 68: AppError::Authentication is answered with 401
Unauthorized == [status |-> 401]

\* lines 244-248
Authenticate ==
    /\ pc = "ready"
    /\ input.fn = "anova_analysis"
    /\ IF input.authenticated
       THEN Step("authenticated", 250, NoResult)
       ELSE Return(248, Unauthorized)

\* line 250
CallOneWayAnova ==
    /\ pc = "authenticated"
    /\ IF overflow_checks /\ one_way_anova_overflows(input.groups)
       THEN Panic(one_way_anova_overflow_site(input.groups))
       ELSE IF one_way_anova_unwrap_fails(input.groups)
       THEN Panic(135)
       ELSE Step("anova_done", 253, [anova |-> one_way_anova(input.groups)])

\* lines 254-258: the call of lsd_test and what it returns
LsdCall(groups, mse, df_error) ==
    [groups |-> groups, mse |-> mse, df_error |-> df_error,
     returned |-> lsd_test(groups, mse, df_error)]

\* the locals with lsd_comparisons left out of the response
PostHocLocalsWithoutLsd(anova, lsd_call) ==
    [anova |-> anova, lsd_call |-> lsd_call, lsd_comparisons |-> None]

\* lines 253-261
PostHocLocals(anova, lsd_call) ==
    [anova |-> anova,
     lsd_call |-> lsd_call,
     lsd_comparisons |-> IF lsd_call.some THEN Some(lsd_call.v.returned) ELSE lsd_call]

\* lines 253-261
PostHoc ==
    /\ pc = "anova_done"
    /\ IF result.anova.is_significant_05
       THEN Step("post_hoc_done", 263,
                 PostHocLocals(result.anova,
                               Some(LsdCall(input.groups, result.anova.source_within.ms,
                                            FromInt(result.anova.source_within.df)))))
       ELSE Step("post_hoc_done", 263, PostHocLocals(result.anova, None))

\* lines 263-266
Respond ==
    /\ pc = "post_hoc_done"
    /\ Return(263, [status |-> 200, anova |-> result.anova,
                    lsd_comparisons |-> result.lsd_comparisons])

NextHandler == Authenticate \/ CallOneWayAnova \/ PostHoc \/ Respond

SpecHandler == InitHandler /\ [][NextHandler]_vars

(***************************************************************************)
(* Properties of the calls.                                                *)
(***************************************************************************)
Called(fn) == input.fn = fn /\ pc # "ready"

Returned(fn) == input.fn = fn /\ pc = "returned"

\* neither NaN nor positive
NonPositive(x) == ~IsNaN(x) /\ FSign(x) <= 0

\* the pair p comes strictly before the pair q in lexicographic order
LexLess(p, q) == p[1] < q[1] \/ (p[1] = q[1] /\ p[2] < q[2])

PairOf(comparison) == <<comparison.group_i, comparison.group_j>>

\* the number of observations of a cell mapping
CellTotal(data) == TotalCount(data, CHOOSE order \in Orders(DOMAIN data) : TRUE)

\* the cell mapping without the cell at key
WithoutCell(data, key) == [c \in (DOMAIN data) \ {key} |-> data[c]]

\* the five rows and the two marginal-mean vectors of a two-way result
RowsAndMargins(res) ==
    <<res.factor_a, res.factor_b, res.interaction, res.error, res.total,
      res.factor_a_means, res.factor_b_means>>

\* C1: lsd_test on k groups returns k(k-1)/2 comparisons, one for each pair
\* 0 <= i < j < k, each pair once, in ascending lexicographic order of (i, j);
\* for k <= 1 the result is empty.
LsdPairsInOrder ==
    Returned("lsd_test") =>
        LET k == Len(input.groups)
        IN  /\ 2 * Len(result) = k * (k - 1)
            /\ {PairOf(result[n]) : n \in DOMAIN result}
                  = {q \in (0..(k - 1)) \X (0..(k - 1)) : q[1] < q[2]}
            /\ \A m, n \in DOMAIN result :
                  m < n => LexLess(PairOf(result[m]), PairOf(result[n]))
            /\ (k <= 1 => result = <<>>)

\* C1 case: three groups have been compared, giving three comparisons
LsdThreeGroupsCompared ==
    Returned("lsd_test") /\ Len(input.groups) = 3 /\ Len(result) = 3

\* C2 as stated: for any input groups the rows reported by one_way_anova
\* satisfy total.ss = between.ss + within.ss and
\* total.df = between.df + within.df (written as a difference).
OneWayRowsAddUp ==
    Returned("one_way_anova") =>
        /\ FEq(result.source_total.ss,
               FAdd(result.source_between.ss, result.source_within.ss))
        /\ result.source_total.df - result.source_between.df = result.source_within.df

\* C3 as stated: for k >= 1 groups one_way_anova always returns, and when the
\* number of observations is 0 or smaller than k it reports MSW = 0, F = 0
\* and p = 1.
OneWayNeverAborts ==
    (Called("one_way_anova") /\ Len(input.groups) >= 1) =>
        /\ pc = "returned"
        /\ (SeqSumNat(GroupSizes(input.groups)) < Len(input.groups)
               => /\ result.source_within.df <= 0
                  /\ result.source_within.ms = Zero
                  /\ result.source_between.f = Some(Zero)
                  /\ result.source_between.p = Some(One))

\* C4 as stated: for levels >= 1 and any mapping with keys in range
\* two_way_anova always returns, and when the number of observations is 0 or
\* smaller than factor_a_levels * factor_b_levels the error df is
\* non-positive, MS_error = 0 and the three p-values are 1.
TwoWayNeverAborts ==
    Called("two_way_anova") =>
        /\ pc = "returned"
        /\ (CellTotal(input.data) < input.levels[1] * input.levels[2]
               => /\ result.error.df <= 0
                  /\ result.error.ms = Zero
                  /\ result.factor_a.p = Some(One)
                  /\ result.factor_b.p = Some(One)
                  /\ result.interaction.p = Some(One))

\* C5: t_test never fails; it takes the early return of line 332 exactly
\* when paired is set and the samples differ in length, and that return is
\* the neutral result; unpaired samples of different lengths go through the
\* Welch branch.
PairedMismatchIsNeutral ==
    Called("t_test") =>
        LET mismatch == Len(input.groups[1]) # Len(input.groups[2])
        IN  /\ pc = "returned"
            /\ (site = 332) = (input.paired /\ mismatch)
            /\ (input.paired /\ mismatch)
                  => result = [t_statistic |-> Zero, p_value |-> One, df |-> Zero,
                               mean_difference |-> Zero, ci_lower |-> Zero,
                               ci_upper |-> Zero, is_significant |-> FALSE]
            /\ (~input.paired /\ mismatch)
                  => /\ site = 402
                     /\ result = WelchBranch(input.groups[1], input.groups[2])

\* C5 case: a paired call on samples of different lengths has returned
PairedMismatchReturned ==
    /\ Returned("t_test")
    /\ input.paired
    /\ Len(input.groups[1]) # Len(input.groups[2])
    /\ site = 332

\* C6: descriptive of an empty sample returns normally, with n = 0 and every
\* other field equal to 0.
EmptySampleIsAllZero ==
    (Called("descriptive") /\ input.groups[1] = <<>>) =>
        /\ pc = "returned"
        /\ result.n = 0
        /\ \A field \in {"mean", "std_dev", "std_error", "min", "max", "median",
                         "q1", "q3", "variance", "cv"} : result[field] = Zero

\* C6 case: descriptive has returned from a call on the empty sample
EmptySampleDescribed ==
    Returned("descriptive") /\ input.groups[1] = <<>> /\ site = 46

\* C7 as stated: removing a cell whose sample is empty leaves the five rows
\* and both marginal-mean vectors of two_way_anova unchanged (whatever the
\* order in which the smaller mapping is iterated).
AbsentCellIsEmptyCell ==
    Returned("two_way_anova") =>
        \A key \in DOMAIN input.data :
            input.data[key] = <<>> =>
                \E order \in Orders((DOMAIN input.data) \ {key}) :
                    RowsAndMargins(two_way_anova(WithoutCell(input.data, key), order,
                                                 input.levels[1], input.levels[2]))
                       = RowsAndMargins(result)

\* C8 as stated: the result of two_way_anova, the cell_means sequence
\* included, is the same for every order in which the cell mapping and the
\* cell_means map are iterated.
TwoWayOrderIndependent ==
    Returned("two_way_anova") =>
        \A order \in Orders(DOMAIN input.data), out_order \in Orders(DOMAIN input.data) :
            CollectResult(two_way_anova(input.data, order,
                                        input.levels[1], input.levels[2]), out_order)
               = result

\* C9: F and p are Some on the between row and on the factor A, factor B and
\* interaction rows, and None on the within, error and total rows.
TestsOnlyOnTestableRows ==
    /\ Returned("one_way_anova") =>
          /\ result.source_between.f.some /\ result.source_between.p.some
          /\ \A row \in {result.source_within, result.source_total} :
                row.f = None /\ row.p = None
    /\ Returned("two_way_anova") =>
          /\ \A row \in {result.factor_a, result.factor_b, result.interaction} :
                row.f.some /\ row.p.some
          /\ \A row \in {result.error, result.total} :
                row.f = None /\ row.p = None

\* C9 case: a two-way table with a positive F statistic for factor B
TwoWayTableWithTest ==
    Returned("two_way_anova") /\ FGt(result.factor_b.f.v, Zero)

\* C10: with non-positive degrees of freedom no lookup fails, the p-value is
\* exactly 1.0 and the critical value is exactly 1.96: in one_way_anova, for
\* each p-value of two_way_anova on its own, in t_test and in lsd_test.
NonPositiveDfPolicy ==
    /\ (pc = "panicked" => site # 135)
    /\ Returned("one_way_anova") =>
          ((result.source_between.df <= 0 \/ result.source_within.df <= 0)
              => result.source_between.p = Some(One))
    /\ Returned("two_way_anova") =>
          \A row \in {result.factor_a, result.factor_b, result.interaction} :
              (row.df <= 0 \/ result.error.df <= 0) => row.p = Some(One)
    /\ Called("t_test") =>
          /\ pc = "returned"
          /\ NonPositive(result.df) =>
                LET margin == FMul(Rat(196, 100),
                                   BackDerivedSe(result.mean_difference, result.t_statistic))
                IN  /\ result.p_value = One
                    /\ result.ci_lower = FSub(result.mean_difference, margin)
                    /\ result.ci_upper = FAdd(result.mean_difference, margin)
    /\ Called("lsd_test") =>
          /\ pc = "returned"
          /\ NonPositive(input.df_error) =>
                \A n \in DOMAIN result :
                    /\ result[n].p_value = One
                    /\ result[n].lsd = FMul(Rat(196, 100), result[n].std_error)

\* C10 case: lsd_test has run with non-positive df_error on groups with a
\* positive standard error
LsdFallbackUsed ==
    /\ Returned("lsd_test")
    /\ NonPositive(input.df_error)
    /\ \E n \in DOMAIN result : FGt(result[n].std_error, Zero)

\* C11 as stated: in every comparison returned by lsd_test with mse >= 0,
\* is_significant is true exactly when the comparison's p-value is < 0.05.
LsdFlagAgreesWithPValue ==
    (Returned("lsd_test") /\ ~FLt(input.mse, Zero)) =>
        \A n \in DOMAIN result :
            result[n].is_significant = FLt(result[n].p_value, Rat(5, 100))

\* the fields of a t_test result and of an lsd_test comparison that are numbers
TTestNumbers(res) ==
    {res.t_statistic, res.p_value, res.df, res.mean_difference, res.ci_lower, res.ci_upper}

LsdNumbers(comparison) ==
    {comparison.mean_difference, comparison.std_error, comparison.t_statistic,
     comparison.p_value, comparison.lsd}

\* C12 as stated: a sample of size 0 or 1 never makes a call fail and gives
\* defined values: descriptive of one observation has variance = std_dev =
\* std_error = 0, and t_test and lsd_test given a sample of size 0 or 1
\* return numbers that are all defined (neither NaN nor infinite).
SmallSamplesGiveDefinedValues ==
    /\ (Called("descriptive") /\ Len(input.groups[1]) = 1) =>
          /\ pc = "returned"
          /\ result.variance = Zero /\ result.std_dev = Zero /\ result.std_error = Zero
    /\ (Called("t_test") /\ (Len(input.groups[1]) <= 1 \/ Len(input.groups[2]) <= 1)) =>
          /\ pc = "returned"
          /\ \A x \in TTestNumbers(result) : IsFinite(x)
    /\ (Called("lsd_test") /\ \E g \in DOMAIN input.groups : Len(input.groups[g]) <= 1) =>
          /\ pc = "returned"
          /\ \A n \in DOMAIN result : \A x \in LsdNumbers(result[n]) : IsFinite(x)

\* every observation of every group is the same value
AllObservationsEqual(groups) ==
    \A g, h \in DOMAIN groups :
        \A i \in DOMAIN groups[g] : \A j \in DOMAIN groups[h] :
            groups[g][i] = groups[h][j]

ObservationCount(groups) ==
    SeqSumNat(Vec([g \in 1..Len(groups) |-> Len(groups[g])]))

\* C13 as stated: whenever all observations in all groups given to
\* one_way_anova are equal (k >= 2 groups, total count > k), SSB = 0 and
\* SSW = 0, the F statistic is 0, the p-value is 1.0, R squared is 0 and both
\* significance flags are false.
IdenticalObservationsGiveNoEffect ==
    (Called("one_way_anova") /\ AllObservationsEqual(input.groups)
       /\ Len(input.groups) >= 2 /\ ObservationCount(input.groups) > Len(input.groups)) =>
        /\ pc = "returned"
        /\ result.source_between.ss = Zero
        /\ result.source_within.ss = Zero
        /\ result.source_between.f = Some(Zero)
        /\ result.source_between.p = Some(One)
        /\ result.r_squared = Zero
        /\ ~result.is_significant_05
        /\ ~result.is_significant_01

\* every cell of the a x b design is present with the same r >= 1 observations
BalancedComplete(data, a, b) ==
    /\ DOMAIN data = Keys(a, b)
    /\ \A c, d \in DOMAIN data : Len(data[c]) = Len(data[d]) /\ Len(data[c]) >= 1

\* the exact sum of the observations of the cells of data at the keys in cells
ExactSum(data, cells) ==
    LET order == CHOOSE q \in Orders(cells) : TRUE
    IN  SeqSumNat(Vec([n \in 1..Len(order) |-> SeqSumNat(data[order[n]])]))

\* the exact cell means of a balanced complete a x b design are additive:
\* mean(i,j) = mean(i,.) + mean(.,j) - mean(.,.), multiplied out by r*a*b
AdditiveCellMeans(data, a, b) ==
    \A c \in Keys(a, b) :
        a * b * ExactSum(data, {c}) =
            a * ExactSum(data, {d \in Keys(a, b) : d[1] = c[1]})
              + b * ExactSum(data, {d \in Keys(a, b) : d[2] = c[2]})
              - ExactSum(data, Keys(a, b))

\* C14 as stated: for every balanced complete a x b design whose cell means
\* are additive, two_way_anova reports interaction.ss = 0 and
\* interaction.f = 0.
AdditiveDesignHasNoInteraction ==
    (Called("two_way_anova")
       /\ BalancedComplete(input.data, input.levels[1], input.levels[2])
       /\ AdditiveCellMeans(input.data, input.levels[1], input.levels[2])) =>
        /\ pc = "returned"
        /\ result.interaction.ss = Zero
        /\ result.interaction.f = Some(Zero)

\* the exact sum of the squares of the observations of a sample
ExactSumOfSquares(sample) ==
    SeqSumNat(Vec([i \in 1..Len(sample) |-> sample[i] * sample[i]]))

\* the exact means of the two samples are equal
EqualMeans(g1, g2) == SeqSumNat(g1) * Len(g2) = SeqSumNat(g2) * Len(g1)

\* n * (n - 1) times the exact sample variance
ScaledVariance(g) == Len(g) * ExactSumOfSquares(g) - SeqSumNat(g) * SeqSumNat(g)

\* the exact sample variances of the two samples (sizes >= 2) are equal
EqualVariances(g1, g2) ==
    ScaledVariance(g1) * Len(g2) * (Len(g2) - 1) = ScaledVariance(g2) * Len(g1) * (Len(g1) - 1)

\* C15 as stated: for an independent (paired = false) t_test on two samples
\* with equal means and equal variances (both sizes >= 2), t_statistic = 0,
\* mean_difference = 0, p_value = 1.0 and is_significant = false.
EqualSamplesGiveZeroT ==
    (Called("t_test") /\ ~input.paired
       /\ Len(input.groups[1]) >= 2 /\ Len(input.groups[2]) >= 2
       /\ EqualMeans(input.groups[1], input.groups[2])
       /\ EqualVariances(input.groups[1], input.groups[2])) =>
        /\ pc = "returned"
        /\ result.t_statistic = Zero
        /\ result.mean_difference = Zero
        /\ result.p_value = One
        /\ ~result.is_significant

\* the sequence q rearranged by the permutation perm of its indices
Permuted(q, perm) == [i \in 1..Len(q) |-> q[perm[i]]]

\* the result res with group_means and group_sizes rearranged by perm
WithGroupsPermuted(res, perm) ==
    [source_between |-> res.source_between,
     source_within |-> res.source_within,
     source_total |-> res.source_total,
     r_squared |-> res.r_squared,
     is_significant_05 |-> res.is_significant_05,
     is_significant_01 |-> res.is_significant_01,
     group_means |-> Permuted(res.group_means, perm),
     group_sizes |-> Permuted(res.group_sizes, perm),
     grand_mean |-> res.grand_mean]

\* C16: in exact arithmetic the outcome of one_way_anova does not depend on
\* the order of the groups: for every permutation of the input groups the
\* three rows (SS, df, MS, F, p), R squared, the grand mean and both
\* significance flags are the same, and group_means and group_sizes are
\* permuted accordingly.
OneWayOrderIndependent ==
    (Returned("one_way_anova") /\ ~rounding) =>
        \A perm \in Orders(1..Len(input.groups)) :
            one_way_anova(Permuted(input.groups, perm)) = WithGroupsPermuted(result, perm)

\* C16 witness: three different groups with a positive F statistic returned
ThreeDifferentGroupsAnalysed ==
    /\ Returned("one_way_anova") /\ ~rounding
    /\ Len(input.groups) = 3
    /\ \A g, h \in 1..3 : g # h => input.groups[g] # input.groups[h]
    /\ FGt(result.source_between.f.v, Zero)

\* 0 <= x <= 1
InUnitInterval(x) == ~IsNaN(x) /\ ~FLt(x, Zero) /\ ~FGt(x, One)

\* C17 as stated: in every one_way_anova result r_squared = SSB/SST when
\* SST > 0 and 0 otherwise, so that 0 <= r_squared <= 1 for every input, and
\* SSB and SSW are never negative.
RSquaredIsAProportion ==
    Returned("one_way_anova") =>
        /\ result.r_squared =
              (IF FGt(result.source_total.ss, Zero)
               THEN FDiv(result.source_between.ss, result.source_total.ss)
               ELSE Zero)
        /\ InUnitInterval(result.r_squared)
        /\ ~FLt(result.source_between.ss, Zero)
        /\ ~FLt(result.source_within.ss, Zero)

\* C18: in every one_way_anova result is_significant_05 is true exactly when
\* the between-row p-value is < 0.05 and is_significant_01 exactly when it is
\* < 0.01; hence is_significant_01 implies is_significant_05, and both are
\* false whenever the p-value is the fallback 1.0.
SignificanceFlagsFollowP ==
    Returned("one_way_anova") =>
        /\ result.source_between.p.some
        /\ result.is_significant_05 = FLt(result.source_between.p.v, Rat(5, 100))
        /\ result.is_significant_01 = FLt(result.source_between.p.v, Rat(1, 100))
        /\ result.is_significant_01 => result.is_significant_05
        /\ result.source_between.p.v = One =>
              ~result.is_significant_05 /\ ~result.is_significant_01

\* C18 witness: a result significant at 0.05 and not at 0.01
SignificantAtOneLevelOnly ==
    /\ Returned("one_way_anova")
    /\ result.is_significant_05
    /\ ~result.is_significant_01

\* every group consists of equal observations
ZeroWithinGroupVariance(groups) ==
    \A g \in DOMAIN groups : \A i, j \in DOMAIN groups[g] : groups[g][i] = groups[g][j]

\* C19 as stated: in one_way_anova MSB = SSB/df_between when df_between > 0
\* and 0 otherwise, MSW = SSW/df_within when df_within > 0 and 0 otherwise,
\* and F = MSB/MSW when MSW > 0 and 0 otherwise; consequently groups with
\* zero within-group variance yield F = 0, p = 1.0 and no significance, even
\* when their means differ.
MeanSquaresAndFAreGuarded ==
    Returned("one_way_anova") =>
        /\ result.source_between.ms =
              MeanSquare(result.source_between.ss, OneWayDfBetween(Len(input.groups)))
        /\ result.source_within.ms =
              MeanSquare(result.source_within.ss,
                         OneWayDfWithin(ObservationCount(input.groups), Len(input.groups)))
        /\ result.source_between.f =
              Some(FRatio(result.source_between.ms, result.source_within.ms))
        /\ ZeroWithinGroupVariance(input.groups) =>
              /\ result.source_between.f = Some(Zero)
              /\ result.source_between.p = Some(One)
              /\ ~result.is_significant_05
              /\ ~result.is_significant_01

\* C20 as stated: the five degrees of freedom reported by two_way_anova are
\* df_A = levels_A - 1, df_B = levels_B - 1, df_interaction = df_A * df_B,
\* df_error = n_total - levels_A * levels_B and df_total = n_total - 1, so
\* that df_A + df_B + df_interaction + df_error = df_total for every input
\* (the sum is written as a difference).
TwoWayDfAddUp ==
    Returned("two_way_anova") =>
        /\ result.factor_a.df = input.levels[1] - 1
        /\ result.factor_b.df = input.levels[2] - 1
        /\ result.interaction.df = result.factor_a.df * result.factor_b.df
        /\ result.error.df = CellTotal(input.data) - input.levels[1] * input.levels[2]
        /\ result.total.df = CellTotal(input.data) - 1
        /\ result.total.df - result.error.df =
              result.factor_a.df + result.factor_b.df + result.interaction.df

\* an iteration order of the cell mapping that visits the cell at key first
OrderFrom(data, key) == CHOOSE order \in Orders(DOMAIN data) : order[1] = key

NonEmptyCells(data) == {key \in DOMAIN data : Len(data[key]) >= 1}

\* C21 as stated: whenever the cell mapping given to two_way_anova contains
\* at least one non-empty cell, the replication count r that weights the
\* interaction sum of squares is the size of a non-empty cell (so r >= 1),
\* applied to every cell: the reported interaction.ss is the one obtained
\* with the size of some non-empty cell as r.
ReplicationsFromNonEmptyCell ==
    (Returned("two_way_anova") /\ NonEmptyCells(input.data) # {}) =>
        \E key \in NonEmptyCells(input.data) :
            result.interaction.ss =
                two_way_anova(input.data, OrderFrom(input.data, key),
                              input.levels[1], input.levels[2]).interaction.ss

\* the number of observations at level lvl of the factor at position pos
LevelCount(data, pos, lvl) ==
    CellTotal([key \in {c \in DOMAIN data : c[pos] = lvl} |-> data[key]])

\* the exact grand mean of a mapping with at least one observation
ExactGrandMean(data) == Rat(ExactSum(data, DOMAIN data), CellTotal(data))

\* sum over the levels of n_level * (mean_level - grand mean)^2
LevelWeightedSS(data, pos, levels, means) ==
    FSum([l \in 1..levels |->
             FMul(FromInt(LevelCount(data, pos, l - 1)),
                  Powi2(FSub(means[l], ExactGrandMean(data))))])

\* C22: for every balanced complete design the weight n_per_a used for SS_A
\* is the number of observations at each level of A (r * levels_B) and
\* n_per_b the number at each level of B (r * levels_A), so that
\* SS_A = sum over a of n_a * (mean_a - grand_mean)^2, and likewise SS_B.
BalancedWeightsAreLevelCounts ==
    (Returned("two_way_anova") /\ ~rounding
       /\ BalancedComplete(input.data, input.levels[1], input.levels[2])) =>
        /\ \A l \in 0..(input.levels[1] - 1) :
              /\ CellTotal(input.data) \div input.levels[1] = LevelCount(input.data, 1, l)
              /\ LevelCount(input.data, 1, l) = Len(input.data[<<0, 0>>]) * input.levels[2]
        /\ \A l \in 0..(input.levels[2] - 1) :
              /\ CellTotal(input.data) \div input.levels[2] = LevelCount(input.data, 2, l)
              /\ LevelCount(input.data, 2, l) = Len(input.data[<<0, 0>>]) * input.levels[1]
        /\ result.factor_a.ss =
              LevelWeightedSS(input.data, 1, input.levels[1], result.factor_a_means)
        /\ result.factor_b.ss =
              LevelWeightedSS(input.data, 2, input.levels[2], result.factor_b_means)

\* C22 witness: a balanced complete 2 x 2 design with two observations per
\* cell and a factor A effect
BalancedDesignWithEffect ==
    /\ Returned("two_way_anova") /\ ~rounding
    /\ input.levels = <<2, 2>>
    /\ BalancedComplete(input.data, 2, 2)
    /\ Len(input.data[<<0, 0>>]) = 2
    /\ FGt(result.factor_a.ss, Zero)

\* C23: two_way_anova tolerates a negative error sum of squares: error.ss is
\* reported as ss_total - ss_a - ss_b - ss_ab without clamping or rejection,
\* and whenever the resulting MS_error is not strictly positive all three F
\* statistics (A, B, interaction) are 0.
NegativeErrorSSTolerated ==
    Returned("two_way_anova") =>
        /\ result.error.ss =
              FSub(FSub(FSub(result.total.ss, result.factor_a.ss), result.factor_b.ss),
                   result.interaction.ss)
        /\ ~FGt(result.error.ms, Zero) =>
              /\ result.factor_a.f = Some(Zero)
              /\ result.factor_b.f = Some(Zero)
              /\ result.interaction.f = Some(Zero)

\* C23 witness: a negative error sum of squares and a negative MS_error
\* reported next to a positive factor mean square
NegativeErrorSSReported ==
    /\ Returned("two_way_anova")
    /\ CellTotal(input.data) > input.levels[1] * input.levels[2]
    /\ FLt(result.error.ss, Zero)
    /\ FLt(result.error.ms, Zero)
    /\ FGt(result.factor_a.ms, Zero) \/ FGt(result.factor_b.ms, Zero)
          \/ FGt(result.interaction.ms, Zero)

\* the half-width t_crit * se of the interval of a t_test result, with the
\* standard error taken as mean_difference / t_statistic, or 0 when
\* t_statistic is 0
BackDerivedMargin(res) ==
    FMul(TTestCritical(res.df),
         IF FEq(res.t_statistic, Zero) THEN Zero
         ELSE FDiv(res.mean_difference, res.t_statistic))

HandlerAt(at) == input.fn = "anova_analysis" /\ pc = at

\* C25: in the anova_analysis handler lsd_test is invoked only after
\* one_way_anova has completed on the same groups, and it receives exactly
\* that result's within-group mean square as mse and within-group df as
\* df_error; lsd_comparisons is present in the response exactly when the
\* ANOVA is significant at 0.05 and is null otherwise.
LsdCoupledToAnova ==
    /\ (HandlerAt("ready") \/ HandlerAt("authenticated")) => result = NoResult
    /\ HandlerAt("anova_done") => DOMAIN result = {"anova"}
    /\ HandlerAt("post_hoc_done") =>
          /\ result.anova = one_way_anova(input.groups)
          /\ result.lsd_call.some = result.anova.is_significant_05
          /\ result.lsd_call.some =>
                /\ result.lsd_call.v.groups = input.groups
                /\ result.lsd_call.v.mse = result.anova.source_within.ms
                /\ result.lsd_call.v.df_error = FromInt(result.anova.source_within.df)
                /\ result.lsd_comparisons.some
                /\ result.lsd_comparisons.v = result.lsd_call.v.returned
          /\ result.lsd_comparisons.some = result.anova.is_significant_05
    /\ (HandlerAt("returned") /\ result.status = 200) =>
          result.lsd_comparisons.some = result.anova.is_significant_05

\* C25 witness: the response to a request with three groups carries the
\* three comparisons of a significant ANOVA
ResponseWithComparisons ==
    /\ HandlerAt("returned")
    /\ result.status = 200
    /\ result.anova.is_significant_05
    /\ result.lsd_comparisons.some
    /\ Len(result.lsd_comparisons.v) = 3

\* C26: whenever the anova_analysis handler invokes lsd_test, the error term
\* it passes is valid: mse > 0 and df_error >= 1.
LsdErrorTermIsValid ==
    (HandlerAt("post_hoc_done") /\ result.lsd_call.some) =>
        /\ FGt(result.lsd_call.v.mse, Zero)
        /\ ~IsNaN(result.lsd_call.v.df_error)
        /\ ~FLt(result.lsd_call.v.df_error, One)

\* C26 witness: lsd_test has been invoked on two groups after a significant
\* ANOVA
LsdInvokedByHandler ==
    /\ HandlerAt("post_hoc_done")
    /\ result.lsd_call.some
    /\ Len(result.lsd_call.v.groups) = 2
    /\ Len(result.lsd_call.v.returned) = 1

\* C27: for every authenticated request the anova_analysis handler returns
\* an HTTP response and never aborts, whatever list of groups the body
\* carries, including an empty list and a list whose groups are all empty.
AuthenticatedRequestNeverAborts ==
    (input.fn = "anova_analysis" /\ input.authenticated) => pc # "panicked"

\* the within-cell sum of squares: over all observations, (x - its cell mean)^2
WithinCellSS(data) ==
    LET cells == CHOOSE q \in Orders(DOMAIN data) : TRUE
    IN  FSum([i \in 1..Len(cells) |->
                 SumSqDev(Obs(data[cells[i]]),
                          MeanOrZero(GroupSum(data[cells[i]]), Len(data[cells[i]])))])

\* C28: for every balanced complete design given to two_way_anova the error
\* sum of squares obtained by subtraction equals the within-cell sum of
\* squares in exact arithmetic, and is therefore never negative.
BalancedErrorSSIsWithinCellSS ==
    (/\ Returned("two_way_anova")
     /\ ~rounding
     /\ BalancedComplete(input.data, input.levels[1], input.levels[2])) =>
        /\ result.error.ss = WithinCellSS(input.data)
        /\ ~IsNaN(result.error.ss)
        /\ ~FLt(result.error.ss, Zero)

\* C28 witness: a replicated balanced complete design with interaction and
\* with variation inside the cells has been analysed
ReplicatedBalancedDesignAnalysed ==
    /\ Returned("two_way_anova")
    /\ BalancedComplete(input.data, input.levels[1], input.levels[2])
    /\ input.levels = <<2, 2>>
    /\ Len(input.data[<<0, 0>>]) = 2
    /\ FGt(result.interaction.ss, Zero)
    /\ FGt(result.error.ss, Zero)

\* the call reaches line 135: it has not aborted before and both degrees of
\* freedom are positive
ReachesUnwrap(groups) ==
    /\ ~(overflow_checks /\ one_way_anova_overflows(groups))
    /\ FGt(OneWayDfBetween(Len(groups)), Zero)
    /\ FGt(OneWayDfWithin(SeqSumNat(GroupSizes(groups)), Len(groups)), Zero)

\* C29: in one_way_anova the F distribution is constructed with an unchecked
\* unwrap only when both df_between > 0 and df_within > 0, so the
\* construction never fails: for every input that reaches that line both
\* parameters are finite and strictly positive.
UnwrapNeverFails ==
    Called("one_way_anova") =>
        /\ (pc = "panicked" => site # 135)
        /\ ((pc = "returned" /\ result.source_between.p.v # One)
               => ReachesUnwrap(input.groups))
        /\ (ReachesUnwrap(input.groups) =>
               /\ pc = "returned"
               /\ FisherSnedecorOk(OneWayDfBetween(Len(input.groups)),
                                   OneWayDfWithin(SeqSumNat(GroupSizes(input.groups)),
                                                  Len(input.groups))))

\* C29 witness: the distribution has been constructed with a wrapped
\* df_within (fewer observations than groups, no overflow checks)
UnwrapReachedWithWrappedDf ==
    /\ Returned("one_way_anova")
    /\ ~overflow_checks
    /\ SeqSumNat(GroupSizes(input.groups)) < Len(input.groups)
    /\ ReachesUnwrap(input.groups)

\* x <= y as f64 compares: false when either side is NaN
FLe(x, y) == FLt(x, y) \/ FEq(x, y)

\* C30: for every t_test result, ci_lower <= mean_difference <= ci_upper.
IntervalBracketsMeanDifference ==
    Returned("t_test") =>
        /\ FLe(result.ci_lower, result.mean_difference)
        /\ FLe(result.mean_difference, result.ci_upper)

=============================================================================
